---- MODULE Spec2Model ----
(***************************************************************************)
(* BoxingArena<T> (src/src/lib.rs): a free list of raw blocks, each sized  *)
(* for one T, fed by unbox and drained by rebox / try_rebox, with explicit *)
(* resize_capacity / trim and a Drop that releases what is left.           *)
(*                                                                         *)
(* The heap is a finite set of block addresses.  std::alloc::alloc answers *)
(* with an address that is not allocated, or with the null pointer when it *)
(* cannot provide one.  T is taken to have non-zero size.                  *)
(*                                                                         *)
(* Undefined behaviour (an access through, or a dealloc of, a pointer that *)
(* is not an allocated block) has two outcomes here: the access traps and  *)
(* the process dies, or it goes through as if the address were ordinary    *)
(* memory (targets where address 0 is mapped, allocators whose free(NULL)  *)
(* is a no-op).                                                            *)
(***************************************************************************)
EXTENDS Integers, Sequences, FiniteSets, Bags, TLC

\* ---- bounds -------------------------------------------------------------
NumAddrs  == 2      \* block addresses the allocator can hand out
NumValues == 2      \* distinct values of T
MaxCap    == 2      \* largest size passed to with_capacity / resize / trim
MaxBoxes  == 2      \* handles the caller holds at once
MaxUnbox  == 2      \* unbox calls the capacity account counts

NULL   == 0         \* the null pointer
Uninit == 0         \* memory that holds no value of T
None   == -1        \* Option::None (and "no return value")

Addrs  == 1..NumAddrs
Ptrs   == Addrs \cup {NULL}
Values == 1..NumValues
Sizes  == 0..MaxCap

VARIABLES
    items,      \* BoxingArena::items : Vec<*mut T>, the free list
    allocated,  \* the allocator's live blocks
    mem,        \* contents of memory: the value held at an address, or Uninit
    boxes,      \* the bag of Box<T> handles the caller owns: [addr, boxed]
    pc,         \* "running", "dropped" (pool torn down) or "aborted" (process died)
    last,       \* record of the last call: what went in, what came out
    acct        \* capacity account of the pool from its construction on, kept while
                \* only unbox and rebox are called: c0, and the calls counted since

vars == <<items, allocated, mem, boxes, pc, last, acct>>

\* ---- Vec<*mut T> --------------------------------------------------------
\* Vec::push
Push(s, p) == Append(s, p)

\* mutant: pops the oldest block instead of the newest
PopOldest(s) ==
    IF Len(s) = 0 THEN [ptr |-> None, rest |-> s]
    ELSE [ptr |-> s[1], rest |-> SubSeq(s, 2, Len(s))]

\* Vec::pop: None of an empty vector, else the last element; rest is what stays
Pop(s) ==
    IF Len(s) = 0 THEN [ptr |-> None, rest |-> s]
    ELSE [ptr |-> s[Len(s)], rest |-> SubSeq(s, 1, Len(s) - 1)]

\* Vec::len, BoxingArena::capacity
capacity(s) == Len(s)

\* a Box<T> in the caller's hands: its pointer, and the value it was built with
Box(raw, v) == [addr |-> raw, boxed |-> v]

\* the caller receives a handle / gives one away
Give(bs, b) == bs (+) SetToBag({b})
Take(bs, b) == bs (-) SetToBag({b})

\* ---- the allocator ------------------------------------------------------
\* std::alloc::alloc(layout): a block that is not in use, or null on failure
AllocResults(al) == (Addrs \ al) \cup {NULL}

\* a pointer the allocator may not be asked to release, nor memory be accessed through
Invalid(p, al) == p \notin al

\* std::alloc::dealloc(p, layout) of a valid block: it leaves the live set, its contents are gone
DeallocMem(m, p) == [m EXCEPT ![p] = Uninit]

\* ---- records of calls ---------------------------------------------------
Call(op, arg, boxed, ret, pre, nalloc, frees, slot, oom) ==
    [op |-> op, arg |-> arg, boxed |-> boxed, ret |-> ret, pre |-> pre,
     nalloc |-> nalloc, frees |-> frees, slot |-> slot, oom |-> oom]

\* the account of a pool just built
Open(s) == [open |-> TRUE, c0 |-> capacity(s), k |-> 0, m |-> 0]

\* the account after a call other than unbox and rebox: nothing is counted any more
Closed == [open |-> FALSE, c0 |-> 0, k |-> 0, m |-> 0]

\* the account after one more unbox (k) or one more reusing rebox (m)
Counted(a, dk, dm) == IF a.open THEN [a EXCEPT !.k = @ + dk, !.m = @ + dm] ELSE a

\* ---- resize_capacity ----------------------------------------------------
\* mutant: the shrink loop stops one block early
ShrinkGuardOffByOne(size, n) == size + 1 < n

\* `while size < n`
ShrinkGuard(size, n) == size < n

\* mutant: the growth loop stops one block early
GrowGuardOffByOne(size, n) == size > n + 1

\* `while size > n`
GrowGuard(size, n) == size > n

\* The shrink loop (lines 109-115) from free list s, live set al, memory m,
\* with fr the pointers passed to dealloc so far: the set of ways it can end.
RECURSIVE ShrinkOutcomes(_, _, _, _, _)
ShrinkOutcomes(s, al, m, fr, size) ==
    IF ~ShrinkGuard(size, Len(s))
    THEN {[items |-> s, allocated |-> al, mem |-> m, frees |-> fr, trap |-> FALSE]}
    ELSE LET p == Pop(s).ptr
             r == Pop(s).rest
         IN  IF Invalid(p, al)
             THEN {[items |-> r, allocated |-> al, mem |-> m,
                    frees |-> Append(fr, p), trap |-> TRUE]}
                  \cup ShrinkOutcomes(r, al, m, Append(fr, p), size)
             ELSE ShrinkOutcomes(r, al \ {p}, DeallocMem(m, p), Append(fr, p), size)

\* The growth loop (lines 117-123): every alloc result is pushed as it comes.
RECURSIVE GrowOutcomes(_, _, _, _, _)
GrowOutcomes(s, al, na, oom, size) ==
    IF ~GrowGuard(size, Len(s))
    THEN {[items |-> s, allocated |-> al, nalloc |-> na, oom |-> oom]}
    ELSE UNION {GrowOutcomes(Push(s, p), al \cup ({p} \ {NULL}), na + 1,
                             oom \/ p = NULL, size) : p \in AllocResults(al)}

\* resize_capacity(size) as a whole: the shrink loop, then the growth loop
ResizeOutcomes(s, al, m, size) ==
    UNION {IF sh.trap
           THEN {[items |-> sh.items, allocated |-> sh.allocated, mem |-> sh.mem,
                  frees |-> sh.frees, trap |-> TRUE, nalloc |-> 0, oom |-> FALSE]}
           ELSE {[items |-> g.items, allocated |-> g.allocated, mem |-> sh.mem,
                  frees |-> sh.frees, trap |-> FALSE, nalloc |-> g.nalloc, oom |-> g.oom] :
                 g \in GrowOutcomes(sh.items, sh.allocated, 0, FALSE, size)} :
           sh \in ShrinkOutcomes(s, al, m, <<>>, size)}

\* ---- construction -------------------------------------------------------
\* BoxingArena::new(): an empty vector, no allocator call
new == <<>>

InitAfter(op, size, o) ==
    /\ items = o.items
    /\ allocated = o.allocated
    /\ mem = [p \in Ptrs |-> Uninit]
    /\ boxes = EmptyBag
    /\ pc = "running"
    /\ last = Call(op, size, Uninit, None, new, o.nalloc, <<>>, None, o.oom)
    /\ acct = Open(o.items)

\* BoxingArena::with_capacity(size): new() followed by resize_capacity(size)
with_capacity(size) ==
    \E o \in ResizeOutcomes(new, {}, [p \in Ptrs |-> Uninit], size) :
        InitAfter("with_capacity", size, o)

Init ==
    \/ InitAfter("new", 0, [items |-> new, allocated |-> {}, nalloc |-> 0, oom |-> FALSE])
    \/ \E size \in Sizes : with_capacity(size)

\* the process dies inside a call: nothing is returned
Abort(op, arg, boxed, nalloc, frees, slot, oom) ==
    /\ pc' = "aborted"
    /\ last' = Call(op, arg, boxed, None, items, nalloc, frees, slot, oom)
    /\ UNCHANGED acct

\* ---- unbox --------------------------------------------------------------
\* mutant: the block is not kept
UnboxForgets(s, raw) == s

\* `self.items.push(raw)` (line 57)
UnboxKeep(s, raw) == Push(s, raw)

\* unbox(v: Box<T>) -> T for a handle b the caller holds
unbox(b) ==
    LET raw == b.addr                           \* Box::into_raw(v)
    IN  /\ pc = "running"
        /\ acct.open => acct.k < MaxUnbox
        /\ \/ \* ptr::read through a pointer that is no block traps
              /\ Invalid(raw, allocated)
              /\ Abort("unbox", raw, b.boxed, 0, <<>>, None, FALSE)
              /\ boxes' = Take(boxes, b)
              /\ UNCHANGED <<items, allocated, mem>>
           \/ \* ptr::read(raw) moves the value out; the block joins the free list
              /\ pc' = "running"
              /\ items' = UnboxKeep(items, raw)
              /\ mem' = [mem EXCEPT ![raw] = Uninit]
              /\ boxes' = Take(boxes, b)
              /\ last' = Call("unbox", raw, b.boxed, mem[raw], items, 0, <<>>, None, FALSE)
              /\ acct' = Counted(acct, 1, 0)
              /\ UNCHANGED allocated

\* ---- rebox --------------------------------------------------------------
\* mutant: a fresh block is requested although a free one was popped
ReboxAlwaysAllocates(popped) == TRUE

\* `match self.items.pop() { None => Box::new(v), ...` (lines 66-67)
ReboxAllocates(popped) == popped = None

\* Box::new(v): a fresh block holding v, or handle_alloc_error when there is none
BoxNew(v) ==
    \E p \in AllocResults(allocated) :
        IF p = NULL
        THEN /\ Abort("rebox", v, Uninit, 1, <<>>, None, TRUE)
             /\ UNCHANGED <<items, allocated, mem, boxes>>
        ELSE /\ pc' = "running"
             /\ allocated' = allocated \cup {p}
             /\ mem' = [mem EXCEPT ![p] = v]
             /\ boxes' = Give(boxes, Box(p, v))
             /\ items' = Pop(items).rest
             /\ last' = Call("rebox", v, Uninit, p, items, 1, <<>>, None, FALSE)
             /\ UNCHANGED acct

\* rebox(v: T) -> Box<T>
rebox(v) ==
    /\ pc = "running"
    /\ BagCardinality(boxes) < MaxBoxes
    /\ IF ReboxAllocates(Pop(items).ptr)
       THEN BoxNew(v)
       ELSE LET raw_ptr == Pop(items).ptr
            IN  /\ items' = Pop(items).rest
                /\ \/ \* ptr::write through a pointer that is no block traps
                      /\ Invalid(raw_ptr, allocated)
                      /\ Abort("rebox", v, Uninit, 0, <<>>, None, FALSE)
                      /\ UNCHANGED <<allocated, mem, boxes>>
                   \/ \* ptr::write(raw_ptr, v); Box::from_raw(raw_ptr)
                      /\ pc' = "running"
                      /\ mem' = [mem EXCEPT ![raw_ptr] = v]
                      /\ boxes' = Give(boxes, Box(raw_ptr, v))
                      /\ last' = Call("rebox", v, Uninit, raw_ptr, items, 0, <<>>, None, FALSE)
                      /\ acct' = Counted(acct, 0, 1)
                      /\ UNCHANGED allocated

\* ---- try_rebox ----------------------------------------------------------
\* the pre-conditions (lines 81-86): `v.is_none()`, `self.items.len() == 0`
TryReboxRefuses(v, s) == v = None \/ capacity(s) = 0

\* mutant: the container is emptied on the way out although nothing was reused
TryReboxTakes(v) == None

\* `return None` (lines 82, 85): the container is not written
TryReboxLeaves(v) == v

\* mutant: the container keeps its value after the copy
TryReboxKeeps(v) == v

\* `std::ptr::write(v, None)` (line 93)
TryReboxEmpties(v) == None

\* mutant: the copy moves no element
TryReboxCopiesNothing(v) == Uninit

\* `std::ptr::copy(v_ref, raw_ptr, 1)` (line 92): what the block holds afterwards
TryReboxCopies(v) == v

\* Option<Box<T>> has no tag: Some(b) is b's pointer and None is the null pointer
SomeBox(raw_ptr) == IF raw_ptr = NULL THEN None ELSE raw_ptr

\* try_rebox(v: &mut Option<T>) -> Option<Box<T>>, v the content of the caller's container
try_rebox(v) ==
    /\ pc = "running"
    /\ BagCardinality(boxes) < MaxBoxes
    /\ IF TryReboxRefuses(v, items)
       THEN /\ pc' = "running"
            /\ last' = Call("try_rebox", v, Uninit, None, items, 0, <<>>,
                            TryReboxLeaves(v), FALSE)
            /\ acct' = Closed
            /\ UNCHANGED <<items, allocated, mem, boxes>>
       ELSE LET raw_ptr == Pop(items).ptr
            IN  /\ items' = Pop(items).rest
                /\ \/ \* `.unwrap()` of None panics; ptr::copy to a pointer that is no block traps
                      /\ raw_ptr = None \/ Invalid(raw_ptr, allocated)
                      /\ Abort("try_rebox", v, Uninit, 0, <<>>, v, FALSE)
                      /\ UNCHANGED <<allocated, mem, boxes>>
                   \/ \* ptr::copy(v_ref, raw_ptr, 1); ptr::write(v, None); Box::from_raw
                      /\ raw_ptr # None
                      /\ pc' = "running"
                      /\ mem' = [mem EXCEPT ![raw_ptr] = TryReboxCopies(v)]
                      /\ boxes' = IF SomeBox(raw_ptr) = None THEN boxes
                                  ELSE Give(boxes, Box(raw_ptr, v))
                      /\ last' = Call("try_rebox", v, Uninit, SomeBox(raw_ptr), items,
                                      0, <<>>, TryReboxEmpties(v), FALSE)
                      /\ acct' = Closed
                      /\ UNCHANGED allocated

\* ---- resize_capacity, trim ----------------------------------------------
Resized(op, size, o) ==
    /\ items' = o.items
    /\ allocated' = o.allocated
    /\ mem' = o.mem
    /\ UNCHANGED boxes
    /\ IF o.trap
       THEN Abort(op, size, Uninit, o.nalloc, o.frees, None, o.oom)
       ELSE /\ pc' = "running"
            /\ last' = Call(op, size, Uninit, None, items, o.nalloc, o.frees, None, o.oom)
            /\ acct' = Closed

\* resize_capacity(size)
resize_capacity(size) ==
    /\ pc = "running"
    /\ \E o \in ResizeOutcomes(items, allocated, mem, size) :
           Resized("resize_capacity", size, o)

\* mutant: trim resizes whatever the current size
TrimAlways(s, size) == TRUE

\* `if self.items.len() > size` (line 128)
TrimNeeded(s, size) == capacity(s) > size

\* trim(size)
trim(size) ==
    /\ pc = "running"
    /\ IF TrimNeeded(items, size)
       THEN \E o \in ResizeOutcomes(items, allocated, mem, size) : Resized("trim", size, o)
       ELSE /\ pc' = "running"
            /\ last' = Call("trim", size, Uninit, None, items, 0, <<>>, None, FALSE)
            /\ acct' = Closed
            /\ UNCHANGED <<items, allocated, mem, boxes>>

\* ---- Drop ---------------------------------------------------------------
\* `for p in &self.items { dealloc(*p) }` from index i on (lines 138-140)
RECURSIVE DropOutcomes(_, _, _, _, _)
DropOutcomes(s, i, al, m, fr) ==
    IF i > Len(s)
    THEN {[allocated |-> al, mem |-> m, frees |-> fr, trap |-> FALSE]}
    ELSE IF Invalid(s[i], al)
         THEN {[allocated |-> al, mem |-> m, frees |-> Append(fr, s[i]), trap |-> TRUE]}
              \cup DropOutcomes(s, i + 1, al, m, Append(fr, s[i]))
         ELSE DropOutcomes(s, i + 1, al \ {s[i]}, DeallocMem(m, s[i]), Append(fr, s[i]))

\* impl Drop for BoxingArena: the pool goes out of scope
drop ==
    /\ pc = "running"
    /\ \E o \in DropOutcomes(items, 1, allocated, mem, <<>>) :
           /\ allocated' = o.allocated
           /\ mem' = o.mem
           /\ UNCHANGED <<items, boxes, acct>>
           /\ pc' = IF o.trap THEN "aborted" ELSE "dropped"
           /\ last' = Call("drop", None, Uninit, None, items, 0, o.frees, None, FALSE)

\* ---- the program --------------------------------------------------------
Next ==
    \/ \E b \in BagToSet(boxes) : unbox(b)
    \/ \E v \in Values : rebox(v)
    \/ \E v \in Values \cup {None} : try_rebox(v)
    \/ \E size \in Sizes : resize_capacity(size)
    \/ \E size \in Sizes : trim(size)
    \/ drop

Spec == Init /\ [][Next]_vars

TypeOK ==
    /\ items \in Seq(Ptrs)
    /\ allocated \subseteq Addrs
    /\ mem \in [Ptrs -> Values \cup {Uninit}]
    /\ pc \in {"running", "dropped", "aborted"}

\* ---- shorthands for the properties --------------------------------------
Returned(op) == pc = "running" /\ last.op = op

Elems(s) == {s[i] : i \in 1..Len(s)}

Distinct(s) == \A i, j \in 1..Len(s) : s[i] = s[j] => i = j

\* ---- C1 -----------------------------------------------------------------
\* C1: capacity accounting.  From a pool of capacity c0, after k unbox calls
\* and m rebox calls that reused a free block, with no resize_capacity / trim
\* (nor try_rebox) in between, capacity() = c0 + k - m; a rebox called on an
\* empty free list leaves capacity() at 0; capacity() is never negative.
C1_CapacityAccounting ==
    /\ (pc = "running" /\ acct.open) => capacity(items) = acct.c0 + acct.k - acct.m
    /\ capacity(items) >= 0
    /\ (Returned("rebox") /\ capacity(last.pre) = 0) => capacity(items) = 0

\* two unbox calls and a reusing rebox on a pool built with a free block
C1_Witness ==
    /\ pc = "running"
    /\ acct.open
    /\ acct.c0 >= 1 /\ acct.k >= 2 /\ acct.m >= 1
    /\ last.op = "unbox"

\* ---- C2 -----------------------------------------------------------------
\* C2: LIFO reuse.  A reusing rebox returns the block most recently added to
\* the free list; in particular a rebox that directly follows the unbox of a
\* handle is built on that handle's block.
C2_LifoReuse ==
    /\ [](Returned("rebox") /\ capacity(last.pre) > 0
            => last.ret = last.pre[Len(last.pre)])
    /\ [][(last.op = "unbox" /\ pc = "running" /\ last'.op = "rebox" /\ pc' = "running")
            => last'.ret = last.arg]_vars

\* a rebox that had two different free blocks to choose from took the newer one
C2_Witness ==
    /\ Returned("rebox")
    /\ capacity(last.pre) = 2
    /\ last.pre[1] # last.pre[2]
    /\ last.ret = last.pre[2]

\* ---- C3 -----------------------------------------------------------------
\* C3: resize exactness.  After resize_capacity(n) returns, capacity() = n.
C3_ResizeExact ==
    Returned("resize_capacity") => capacity(items) = last.arg

\* a resize that had to grow the free list by at least two blocks has returned
C3_Witness ==
    /\ Returned("resize_capacity")
    /\ capacity(last.pre) + 2 <= last.arg
    /\ capacity(items) = last.arg

\* ---- C4 -----------------------------------------------------------------
\* C4: try_rebox returns None whenever the container is empty and whenever
\* capacity() = 0; it returns a handle only when the container holds a value
\* and the free list is non-empty, and then capacity() has gone down by
\* exactly one and the container is empty.
C4_TryReboxPrecondition ==
    Returned("try_rebox") =>
        /\ last.arg = None => last.ret = None
        /\ capacity(last.pre) = 0 => last.ret = None
        /\ last.ret # None =>
              /\ last.arg \in Values
              /\ capacity(last.pre) > 0
              /\ capacity(items) = capacity(last.pre) - 1
              /\ last.slot = None

\* try_rebox has returned a handle
C4_Witness ==
    /\ Returned("try_rebox")
    /\ last.ret \in Addrs
    /\ last.arg \in Values

\* ---- C5 -----------------------------------------------------------------
\* C5: allocator exhaustion is fatal.  A call in which the allocator could
\* not provide a block never returns normally, and no null allocation result
\* is in the free list or in a handle.
C5_ExhaustionFatal ==
    /\ last.oom => pc = "aborted"
    /\ NULL \notin Elems(items)
    /\ \A b \in BagToSet(boxes) : b.addr # NULL

\* ---- C6 -----------------------------------------------------------------
\* C6: free-list block invariant.  While the pool exists, every address in
\* the free list is an allocated block, holds no live value, occurs in the
\* free list once, and is the block of no handle the caller owns.
C6_FreeListBlocks ==
    pc = "running" =>
        /\ \A p \in Elems(items) :
              /\ p \in allocated
              /\ mem[p] = Uninit
              /\ \A b \in BagToSet(boxes) : b.addr # p
        /\ Distinct(items)

\* ---- C7 -----------------------------------------------------------------
\* C7: teardown.  When the pool is dropped, every block still in the free
\* list is released to the allocator exactly once, and no block of a handle
\* the caller still holds is released or touched.
C7_Teardown ==
    last.op = "drop" =>
        /\ pc = "dropped"
        /\ Elems(items) \subseteq Addrs
        /\ Elems(items) \cap allocated = {}
        /\ last.frees = items
        /\ Distinct(last.frees)
        /\ \A b \in BagToSet(boxes) :
              /\ b.addr \in allocated
              /\ b.addr \notin Elems(last.frees)
              /\ mem[b.addr] = b.boxed

\* ---- C8 -----------------------------------------------------------------
\* C8: allocator traffic.  rebox asks the allocator for a block if and only
\* if the free list is empty at the call; unbox releases nothing and appends
\* the handle's block to the free list, which grows by exactly one.
C8_AllocatorTraffic ==
    [][/\ last'.op = "rebox" =>
            /\ last'.nalloc = (IF capacity(items) = 0 THEN 1 ELSE 0)
            /\ capacity(items) > 0 => allocated' = allocated
            /\ (capacity(items) = 0 /\ pc' = "running") =>
                    /\ last'.ret \notin allocated
                    /\ allocated' = allocated \cup {last'.ret}
       /\ (last'.op = "unbox" /\ pc' = "running") =>
            /\ allocated' = allocated
            /\ last'.frees = <<>>
            /\ last'.nalloc = 0
            /\ items' = Append(items, last'.arg)
      ]_vars

\* a rebox has returned a handle on a free block without asking the allocator
C8_Witness ==
    /\ Returned("rebox")
    /\ capacity(last.pre) > 0
    /\ last.nalloc = 0
    /\ last.ret \in allocated

\* ---- C9 -----------------------------------------------------------------
\* C9: value round trip.  unbox of a handle returns the value it was built
\* with, and every handle the caller owns holds exactly that value.
C9_RoundTrip ==
    /\ Returned("unbox") => last.ret = last.boxed
    /\ pc = "running" => \A b \in BagToSet(boxes) : mem[b.addr] = b.boxed /\ CopiesIn(b, boxes) = 1

\* ---- C10 ----------------------------------------------------------------
\* C10: a try_rebox whose container is empty or whose free list is empty
\* returns None and changes nothing: the container, the free list, capacity()
\* and the allocator's state are as before, and no allocator call is made.
C10_TryReboxFailureFrame ==
    [][(last'.op = "try_rebox" /\ (last'.arg = None \/ capacity(items) = 0)) =>
            /\ pc' = "running"
            /\ last'.ret = None
            /\ last'.slot = last'.arg
            /\ items' = items
            /\ allocated' = allocated
            /\ mem' = mem
            /\ boxes' = boxes
            /\ last'.nalloc = 0
            /\ last'.frees = <<>>
      ]_vars

\* try_rebox has refused a container that holds a value, for want of a free block
C10_Witness ==
    /\ Returned("try_rebox")
    /\ last.arg \in Values
    /\ capacity(last.pre) = 0
    /\ last.ret = None
    /\ last.slot = last.arg

\* ---- C11 ----------------------------------------------------------------
Min(a, b) == IF a <= b THEN a ELSE b

\* C11: trim monotonicity.  trim(n) never increases capacity(); called with
\* capacity() <= n it leaves the free list as it was and makes no allocator
\* call; called with capacity() > n it leaves capacity() = n.  So capacity()
\* after trim(n) is min(old capacity, n).
C11_TrimMonotone ==
    /\ last.op = "trim" => capacity(items) <= capacity(last.pre)
    /\ Returned("trim") =>
          /\ capacity(last.pre) <= last.arg =>
                /\ items = last.pre
                /\ last.nalloc = 0
                /\ last.frees = <<>>
          /\ capacity(last.pre) > last.arg => capacity(items) = last.arg
          /\ capacity(items) = Min(capacity(last.pre), last.arg)

\* a trim to more than the pool holds has returned and left the blocks it had
C11_Witness ==
    /\ Returned("trim")
    /\ capacity(last.pre) >= 1
    /\ capacity(last.pre) < last.arg
    /\ items = last.pre

\* ---- C12 ----------------------------------------------------------------
\* C12: construction.  new() yields a pool with capacity() = 0 and makes no
\* allocator call; with_capacity(n) yields a pool with capacity() = n whose n
\* blocks are pairwise distinct, allocated and uninitialized, obtained by
\* exactly n allocator requests.
C12_Construction ==
    /\ last.op = "new" =>
          /\ capacity(items) = 0
          /\ last.nalloc = 0
          /\ allocated = {}
    /\ last.op = "with_capacity" =>
          /\ capacity(items) = last.arg
          /\ last.nalloc = last.arg
          /\ Distinct(items)
          /\ \A p \in Elems(items) : p \in allocated /\ mem[p] = Uninit
          /\ Cardinality(allocated) = last.arg

\* ---- C13 ----------------------------------------------------------------
Reverse(s) == [i \in 1..Len(s) |-> s[Len(s) + 1 - i]]

\* C13: shrink order.  resize_capacity(n) called with capacity() = m > n
\* releases exactly the m - n most recently added blocks, each once, and
\* leaves the n oldest blocks in the free list in their order.
C13_ShrinkOrder ==
    (last.op = "resize_capacity" /\ capacity(last.pre) > last.arg) =>
        LET kept == SubSeq(last.pre, 1, last.arg)
            gone == SubSeq(last.pre, last.arg + 1, Len(last.pre))
        IN  /\ pc = "running"
            /\ items = kept
            /\ last.frees = Reverse(gone)
            /\ last.nalloc = 0
            /\ Elems(gone) \subseteq Addrs
            /\ Distinct(gone)
            /\ Elems(gone) \cap allocated = {}

BoxAddrs == {b.addr : b \in BagToSet(boxes)}

\* C15: block conservation.  While the pool exists every allocated block is
\* in exactly one place, the free list or a handle of the caller, so the
\* number of allocated blocks is capacity() plus the number of handles; no
\* call releases a block twice; after drop only the blocks of handles are
\* still allocated.
C15_BlockConservation ==
    /\ pc = "running" =>
          /\ Cardinality(allocated) = capacity(items) + BagCardinality(boxes)
          /\ Elems(items) \cup BoxAddrs = allocated
          /\ Elems(items) \cap BoxAddrs = {}
          /\ Distinct(items)
          /\ \A b \in BagToSet(boxes) : CopiesIn(b, boxes) = 1
    /\ pc # "aborted" =>
          /\ Distinct(last.frees)
          /\ Elems(last.frees) \subseteq Addrs
          /\ Elems(last.frees) \cap allocated = {}
    /\ pc = "dropped" =>
          /\ Elems(items) \cap allocated = {}
          /\ BoxAddrs = allocated
          /\ Cardinality(allocated) = BagCardinality(boxes)

\* ---- C16 ----------------------------------------------------------------
\* what a call that changes nothing and calls no allocator function comes to
Untouched ==
    [items |-> items, allocated |-> allocated, mem |-> mem, frees |-> <<>>,
     trap |-> FALSE, nalloc |-> 0, oom |-> FALSE]

\* C16: resize is one-directional and idempotent.  A resize_capacity(n) that
\* returns from capacity m has made exactly |m - n| allocator calls: m - n
\* releases and no allocation when m > n, n - m allocations and no release
\* when m < n, none when m = n, where the free list stays as it was; a second
\* resize_capacity(n) right after it changes nothing.
C16_ResizeOneWay ==
    Returned("resize_capacity") =>
        LET m == capacity(last.pre)
            n == last.arg
        IN  /\ m > n => last.nalloc = 0 /\ Len(last.frees) = m - n
            /\ m < n => last.nalloc = n - m /\ last.frees = <<>>
            /\ m = n => last.nalloc = 0 /\ last.frees = <<>> /\ items = last.pre
            /\ ResizeOutcomes(items, allocated, mem, n) = {Untouched}

\* a resize that had to release at least two entries has returned
C16_Witness ==
    /\ Returned("resize_capacity")
    /\ capacity(last.pre) >= last.arg + 2
    /\ Len(last.frees) = capacity(last.pre) - last.arg
    /\ last.nalloc = 0
====
